---------------------------- MODULE Spec2Model ----------------------------
(***************************************************************************)
(* Gear Lever, src/AppDetails.py and src/lib/json_config.py: the lifecycle *)
(* handlers of the application details page (install, uninstall, launch,   *)
(* update, unlock, conflict dialog), the update poll, and the per          *)
(* application configuration kept in the 'apps' json document.             *)
(*                                                                         *)
(* Handlers connected to GTK signals run on the main loop, one at a time.  *)
(* A method decorated @_async runs on a thread of its own; a method        *)
(* decorated @idle, and every GLib.idle_add, is queued on the main loop.   *)
(* The Package Provider, the list element and the update manager are not   *)
(* part of the two source files: their effects are the ones the            *)
(* specification gives them.                                               *)
(***************************************************************************)
EXTENDS Naturals, Sequences, FiniteSets, Bags, TLC

VARIABLES
    name,           \* app_list_element.name
    status,         \* app_list_element.installed_status
    trusted,        \* app_list_element.trusted
    isTerminal,     \* desktop_entry and desktop_entry.getTerminal()
    updateLogic,    \* app_list_element.update_logic
    isUpdatable,    \* app_list_element.is_updatable_from_url
    updatingFrom,   \* app_list_element.updating_from
    installed,      \* the packages of this name provider.list_installed() holds
    file,           \* the content of <config dir>/apps.json
    primarySens,    \* primary_action_button sensitive
    secondarySens,  \* secondary_action_button sensitive
    updateVisible,  \* update_action_button visible
    updateSens,     \* update_action_button sensitive
    banner,         \* window_banner revealed with its Unlock button
    rows,           \* the website / update url rows exist (complete_load on INSTALLED)
    modalOpen,      \* AppDetailsConflictModal presented, no response yet
    threads,        \* bag of the running @_async work units
    idleq,          \* the main loop's queue of idle callbacks
    calls,          \* history: the Provider's install_file / uninstall calls, in order
    modalCalls,     \* history: Len(calls) when the conflict dialog was presented
    emitted,        \* history: 'uninstalled-app' was emitted
    envWidgets,     \* the [row_key, row_value] entry pairs created, by row
    envList,        \* env_variables_widgets: the rows in it, in order
    envShown,       \* the rows whose form is in env_variables_group_container
    envGroup,       \* the editor's group is on the page (extra_data holds it)
    saveSens,       \* save_vars_btn sensitive
    envCommitted,   \* app_list_element.env_variables
    last            \* history: the step just taken and how it ended

vars == <<name, status, trusted, isTerminal, updateLogic, isUpdatable,
          updatingFrom, installed, file, primarySens, secondarySens,
          updateVisible, updateSens, banner, rows, modalOpen, threads, idleq, calls,
          modalCalls, emitted, envWidgets, envList, envShown, envGroup,
          saveSens, envCommitted, last>>

\* The state of the environment variable editor.
envVars == <<envWidgets, envList, envShown, envGroup, saveSens, envCommitted>>

---------------------------------------------------------------------------
(* Bounds of the model. *)

MaxPending == 1     \* work units and idle callbacks pending when the user starts a work unit
MaxCalls == 3       \* length of the Provider call history

---------------------------------------------------------------------------
(* Values. *)

None == "None"
StatusSet == {"NOT_INSTALLED", "INSTALLING", "INSTALLED", "UNINSTALLING",
              "UPDATE_AVAILABLE", "UPDATING", "ERROR"}

\* Display names, and base64.b64encode(el.name.encode('ascii')).decode('ascii').
Names == {"Foo"}
B64 == [n \in {"Foo", "Bar", ""} |->
           IF n = "Foo" THEN "Rm9v" ELSE IF n = "Bar" THEN "QmFy" ELSE ""]
OtherKey == B64["Bar"]

\* Texts typed into the website row; url_is_valid accepts the first only.
WebsiteTexts == {"https://w", "bad web"}
url_is_valid(text) == text \in {"https://v", "https://w"}

\* Texts typed into the update url row, after strip().
UpdateUrlTexts == {"https://u", "bad url"}
\* UpdateManagerChecker.check_url: a manager, or None.  An unrecognised url
\* gives None; a recognised one gives None when the network fails.
check_url(url) == IF url = "https://u" THEN {"manager", None} ELSE {None}

---------------------------------------------------------------------------
(* json_config.py.  A configuration is a function from keys to records, a  *)
(* record a function from field names to strings.  The document on disk is *)
(* the text json.dumps gives: modelled as the members it lists.            *)

NoFile == [isfile |-> FALSE, cut |-> FALSE, keys |-> {}, members |-> {}]

\* open(path, 'w+'), line 27: the file exists and its text is empty; cut
\* marks a text that is not a whole json document
Truncated == [isfile |-> TRUE, cut |-> TRUE, keys |-> {}, members |-> {}]

\* json.dumps(data), line 28
dumps(data) ==
    [isfile |-> TRUE,
     cut |-> FALSE,
     keys |-> DOMAIN data,
     members |-> UNION {{<<k, f, data[k][f]>> : f \in DOMAIN data[k]} : k \in DOMAIN data}]

\* json.loads(text), line 22
loads(doc) ==
    [k \in doc.keys |->
        LET fs == {m[2] : m \in {x \in doc.members : x[1] = k}}
        IN [f \in fs |-> (CHOOSE m \in doc.members : m[1] = k /\ m[2] = f)[3]]]

\* json.loads raises JSONDecodeError on a text that is not a whole document
Decodes(doc) == ~doc.isfile \/ ~doc.cut

\* read_json_config('apps')
read_json_config(doc) == IF ~doc.isfile THEN <<>> ELSE loads(doc)

\* set_json_config('apps', data): the document after the call
set_json_config(data) == dumps(data)

\* d[k] = v on a dict
DictSet(d, k, v) == [x \in DOMAIN d \cup {k} |-> IF x = k THEN v ELSE d[x]]
\* del d[k] on a dict holding k
DictDel(d, k) == [x \in DOMAIN d \ {k} |-> d[x]]
\* d.get(k), None when absent
DictGet(d, k) == IF k \in DOMAIN d THEN d[k] ELSE None

\* read_config_for_app(el)
read_config_for_app(doc, n) ==
    LET conf == read_json_config(doc)
        b64name == B64[n]
        app_config == IF b64name \in DOMAIN conf THEN conf[b64name] ELSE <<>>
    IN DictSet(app_config, "b64name", b64name)

---------------------------------------------------------------------------
(* The collaborators outside the two source files.                         *)

\* provider.is_updatable(el): an installation of the same identity exists
provider_is_updatable(inst) == "old" \in inst

\* InstalledStatus after provider.install_file(el): INSTALLED on success; a
\* failure raises and writes nothing
provider_install_file(ok, st) == IF ok THEN "INSTALLED" ELSE st

\* InstalledStatus while provider.update_from_url runs, and when it ends:
\* back to INSTALLED on completion and on failure
provider_update_begin == "UPDATING"
provider_update_end(ok) == "INSTALLED"

\* el.set_installed_status(status)
set_installed_status(st) == st

\* el.set_trusted()
set_trusted == TRUE

---------------------------------------------------------------------------
(* Work units and history records.                                         *)

\* An @_async work unit: kind and position, and its locals: the conf and
\* app_conf it read, the text it was given, its manager and the number of
\* cleanup() calls made on it, whether update_from_url raised and whether the
\* error dialog was shown.
Thread(kind, pc) ==
    [kind |-> kind, pc |-> pc, snap |-> <<>>, rec |-> <<>>, text |-> "",
     mgr |-> None, cl |-> 0, failed |-> FALSE, err |-> FALSE]

\* The step just taken.
Step(op, out) ==
    [op |-> op, out |-> out, mgr |-> FALSE, cl |-> 0, failed |-> FALSE, err |-> FALSE]
\* The last step of work unit t.
Finish(t, out) ==
    [op |-> t.kind, out |-> out, mgr |-> t.mgr # None, cl |-> t.cl,
     failed |-> t.failed, err |-> t.err]

Running == BagCardinality(threads)
\* The user starts a further work unit only while few are pending: this bounds
\* the model, not the program.
CanSpawn == Running + Len(idleq) < MaxPending
Spawn(t) == threads (+) SetToBag({t})
Replace(t, u) == (threads (-) SetToBag({t})) (+) SetToBag({u})
End(t) == threads (-) SetToBag({t})

---------------------------------------------------------------------------
(* update_installation_status, lines 380-431: the sensitivity it leaves.   *)

PrimaryAfter(st) == st \notin {"UNINSTALLING", "INSTALLING", "UPDATING"}
SecondaryAfter(st, term) == ~(st = "NOT_INSTALLED" /\ term)

---------------------------------------------------------------------------
(* The state after __init__ and set_app_list_element(el): fresh widgets,   *)
(* the package handed in, load() running.                                  *)

\* The record of another application, with a field this program does not know.
OtherRecord == [b64name |-> OtherKey, website |-> "https://v", extra |-> "x"]

\* The documents the program may find: none, and ones written by earlier runs.
InitConfs ==
    {(OtherKey :> OtherRecord),
     (B64["Foo"] :> [b64name |-> B64["Foo"], update_url |-> "https://u", extra |-> "x"])
        @@ (OtherKey :> OtherRecord),
     (B64["Foo"] :> [b64name |-> B64["Foo"], website |-> "https://v", extra |-> "x"])}

Init ==
    /\ name \in Names
    /\ status \in {"NOT_INSTALLED", "INSTALLED"}
    /\ trusted \in (IF status = "INSTALLED" THEN {TRUE} ELSE BOOLEAN)
    /\ isTerminal \in BOOLEAN
    /\ updateLogic = None
    /\ isUpdatable = "unset"
    /\ updatingFrom = None
    /\ installed \in (IF status = "INSTALLED" THEN {{"new"}} ELSE {{}, {"old"}})
    /\ file \in {NoFile} \cup {dumps(c) : c \in InitConfs}
    /\ primarySens = TRUE
    /\ secondarySens = TRUE
    /\ updateVisible = FALSE
    /\ updateSens = TRUE
    /\ banner = FALSE
    /\ rows = FALSE
    /\ modalOpen = FALSE
    /\ threads = SetToBag({Thread("load", "run")})
    /\ idleq = <<>>
    /\ calls = <<>>
    /\ modalCalls = 0
    /\ emitted = FALSE
    /\ envWidgets = <<>>
    /\ envList = <<>>
    /\ envShown = {}
    /\ envGroup = FALSE
    /\ saveSens = FALSE
    /\ envCommitted = <<>>
    /\ last = Step("init", "ok")

---------------------------------------------------------------------------
(* on_primary_action_button_clicked, lines 258-296.                        *)

\* Mutant: the test of update_logic inverted.
NeedsConflictDialog_Inverted(ul) == provider_is_updatable(installed) /\ ul # None

\* line 273: the conflict dialog is needed
NeedsConflictDialog(ul) == provider_is_updatable(installed) /\ ul = None

\* lines 286-289: next(filter(name == el.name, provider.list_installed()), None)
\* Mutant: the filter over list_installed() never matches.
old_version_NoMatch == None

old_version == IF "old" \in installed THEN "old" ELSE None

\* lines 265-268: the document after the record's removal; del raises
\* KeyError when the app has no record, and nothing is written
RemoveRecord(doc, n) ==
    LET app_config == read_config_for_app(doc, n)
        conf == read_json_config(doc)
    IN IF app_config["b64name"] \in DOMAIN conf
       THEN [raised |-> FALSE, file |-> set_json_config(DictDel(conf, app_config["b64name"]))]
       ELSE [raised |-> TRUE, file |-> doc]

\* lines 259-270: the package is INSTALLED
Uninstall(op) ==
    /\ status = "INSTALLED"
    /\ Len(calls) < MaxCalls
    /\ status' = set_installed_status("UNINSTALLING")
    /\ primarySens' = PrimaryAfter(status')
    /\ secondarySens' = SecondaryAfter(status', isTerminal)
    /\ calls' = Append(calls, "uninstall")
    /\ \E ok \in BOOLEAN :
         IF ~ok
         THEN \* provider.uninstall raises: the handler ends at line 263
              /\ UNCHANGED <<installed, file, emitted>>
              /\ last' = Step(op, "uninstall_raised")
         ELSE LET r == RemoveRecord(file, name)
              IN /\ installed' = installed \ {"new"}
                 /\ file' = r.file
                 /\ emitted' = (emitted \/ ~r.raised)
                 /\ last' = Step(op, IF r.raised THEN "keyerror" ELSE "uninstalled")
    /\ UNCHANGED <<name, trusted, isTerminal, isUpdatable, updatingFrom,
                   updateVisible, updateSens, banner, rows, threads,
                   idleq, modalCalls>>

\* lines 273-278: the dialog is presented and the handler returns
PresentConflictModal(op) ==
    /\ modalOpen' = TRUE
    /\ modalCalls' = Len(calls)
    /\ last' = Step(op, "modal")
    /\ UNCHANGED <<name, status, trusted, isTerminal, isUpdatable, updatingFrom,
                   installed, file, primarySens, secondarySens, updateVisible,
                   updateSens, banner, rows, threads, idleq, calls, emitted>>

\* lines 280-296: the install proper
StartInstall(ul, op) ==
    /\ status' = set_installed_status("INSTALLING")
    /\ primarySens' = PrimaryAfter(status')
    /\ secondarySens' = SecondaryAfter(status', isTerminal)
    /\ IF ~trusted
       THEN /\ last' = Step(op, "untrusted")
            /\ UNCHANGED <<updatingFrom, installed, threads, calls>>
       ELSE IF ul = "REPLACE"
       THEN /\ Len(calls) + 1 < MaxCalls
            /\ updatingFrom' = old_version
            /\ \E ok \in (IF old_version = None THEN {FALSE} ELSE BOOLEAN) :
                 IF ok
                 THEN /\ CanSpawn
                      /\ installed' = installed \ {old_version}
                      /\ calls' = calls \o <<"uninstall_old", "install_file">>
                      /\ threads' = Spawn(Thread("install", "provider"))
                      /\ last' = Step(op, "installing")
                 ELSE \* provider.uninstall(old_version) raises, line 292
                      /\ calls' = Append(calls, "uninstall_old")
                      /\ last' = Step(op, "replace_raised")
                      /\ UNCHANGED <<installed, threads>>
       ELSE /\ Len(calls) < MaxCalls
            /\ CanSpawn
            /\ calls' = Append(calls, "install_file")
            /\ threads' = Spawn(Thread("install", "provider"))
            /\ last' = Step(op, "installing")
            /\ UNCHANGED <<updatingFrom, installed>>
    /\ UNCHANGED <<name, trusted, isTerminal, isUpdatable, file, updateVisible,
                   updateSens, banner, rows, idleq, modalCalls, emitted>>

\* line 296 alone: no branch is taken for the other states
PrimaryIgnored(op) ==
    /\ status \notin {"INSTALLED", "NOT_INSTALLED"}
    /\ primarySens' = PrimaryAfter(status)
    /\ secondarySens' = SecondaryAfter(status, isTerminal)
    /\ last' = Step(op, "ignored")
    /\ UNCHANGED <<name, status, trusted, isTerminal, isUpdatable, updatingFrom,
                   installed, file, updateVisible, updateSens, banner, rows,
                   threads, idleq, calls, modalCalls, emitted>>

\* The handler, run with update_logic = ul; the dialog is open afterwards only
\* when the handler presented it.
OnPrimary(ul, op) ==
    \/ Uninstall(op)
    \/ /\ status = "NOT_INSTALLED"
       /\ IF NeedsConflictDialog(ul) THEN PresentConflictModal(op) ELSE StartInstall(ul, op)
    \/ PrimaryIgnored(op)

ModalAfter == IF last'.out = "modal" THEN modalOpen' = TRUE ELSE modalOpen' = FALSE

\* A click on the primary button.
PrimaryClick ==
    /\ UNCHANGED envVars
    /\ primarySens
    /\ ~modalOpen
    /\ OnPrimary(updateLogic, "primary")
    /\ ModalAfter
    /\ UNCHANGED updateLogic

\* Mutant: the cancel branch lacks its return.
ConflictResponse_NoReturn(data) ==
    LET ul == IF data = "cancel" THEN None ELSE data
    IN /\ updateLogic' = ul
       /\ OnPrimary(ul, data)
       /\ ModalAfter

\* on_conflict_modal_close(widget, data), lines 250-256
ConflictResponse(data) ==
    IF data = "cancel"
    THEN /\ updateLogic' = None
         /\ modalOpen' = FALSE
         /\ last' = Step("cancel", "returned")
         /\ UNCHANGED <<name, status, trusted, isTerminal, isUpdatable,
                        updatingFrom, installed, file, primarySens,
                        secondarySens, updateVisible, updateSens, banner,
                        rows, threads, idleq, calls, modalCalls, emitted>>
    ELSE /\ updateLogic' = data
         /\ OnPrimary(data, data)
         /\ ModalAfter

\* The dialog's response signal.
ConflictModalClose ==
    /\ UNCHANGED envVars
    /\ modalOpen
    /\ \E data \in {"cancel", "REPLACE", "KEEP_BOTH"} : ConflictResponse(data)

---------------------------------------------------------------------------
(* on_secondary_action_button_clicked, lines 298-313.                      *)

\* Mutant: the launch does not consult the trusted flag.
MayLaunch_NoTrust ==
    /\ status \in {"INSTALLED", "NOT_INSTALLED"}
    /\ ~isTerminal

\* Mutant: the launch does not consult the terminal flag.
MayLaunch_NoTerminal ==
    /\ status \in {"INSTALLED", "NOT_INSTALLED"}
    /\ trusted

\* lines 299-301: the launch goes ahead
MayLaunch ==
    /\ status \in {"INSTALLED", "NOT_INSTALLED"}
    /\ trusted /\ ~isTerminal

SecondaryClick ==
    /\ UNCHANGED envVars
    /\ secondarySens
    /\ ~modalOpen
    /\ IF MayLaunch
       THEN /\ trusted' = set_trusted
            /\ secondarySens' = FALSE
            /\ \E ok \in BOOLEAN :
                 IF ok
                 THEN /\ CanSpawn
                      /\ threads' = Spawn(Thread("anim", "sleep"))
                      /\ last' = Step("launch", "ran")
                 ELSE \* provider.run raises: caught and logged, lines 312-313
                      /\ last' = Step("launch", "run_raised")
                      /\ UNCHANGED <<threads>>
       ELSE /\ last' = Step("launch", "blocked")
            /\ UNCHANGED <<trusted, secondarySens, threads>>
    /\ UNCHANGED <<name, status, isTerminal, updateLogic, isUpdatable,
                   updatingFrom, installed, file, primarySens, updateVisible,
                   updateSens, banner, rows, modalOpen, idleq, calls,
                   modalCalls, emitted>>

\* post_launch_animation, lines 359-367
AnimRun ==
    \E t \in BagToSet(threads) :
        /\ UNCHANGED envVars
        /\ t.kind = "anim"
        /\ idleq' = Append(idleq, "restore_launch")
        /\ threads' = End(t)
        /\ last' = Finish(t, "done")
        /\ UNCHANGED <<name, status, trusted, isTerminal, updateLogic,
                       isUpdatable, updatingFrom, installed, file, primarySens,
                       secondarySens, updateVisible, updateSens, banner, rows,
                       modalOpen, calls, modalCalls, emitted>>

---------------------------------------------------------------------------
(* after_trust_buttons_interaction, lines 444-452, and load, 225-236.      *)

Unlock ==
    /\ UNCHANGED envVars
    /\ banner
    /\ ~modalOpen
    /\ CanSpawn
    /\ trusted' = TRUE
    /\ banner' = FALSE
    /\ threads' = Spawn(Thread("load", "run"))
    /\ last' = Step("unlock", "ok")
    /\ UNCHANGED <<name, status, isTerminal, updateLogic, isUpdatable,
                   updatingFrom, installed, file, primarySens, secondarySens,
                   updateVisible, updateSens, rows, modalOpen, idleq, calls,
                   modalCalls, emitted>>

LoadRun ==
    \E t \in BagToSet(threads) :
        /\ UNCHANGED envVars
        /\ t.kind = "load"
        /\ idleq' = Append(idleq, "complete_load")
        /\ threads' = End(t)
        /\ last' = Finish(t, "done")
        /\ UNCHANGED <<name, status, trusted, isTerminal, updateLogic,
                       isUpdatable, updatingFrom, installed, file, primarySens,
                       secondarySens, updateVisible, updateSens, banner, rows,
                       modalOpen, calls, modalCalls, emitted>>

---------------------------------------------------------------------------
(* install_file, lines 238-248.                                            *)

\* lines 240-243: provider.install_file in its try
InstallProvider ==
    \E t \in BagToSet(threads) :
        /\ UNCHANGED envVars
        /\ t.kind = "install" /\ t.pc = "provider"
        /\ \E ok \in BOOLEAN :
             /\ status' = provider_install_file(ok, status)
             /\ installed' = IF ok THEN installed \cup {"new"} ELSE installed
             /\ threads' = Replace(t, [t EXCEPT !.pc = "after", !.failed = ~ok])
             /\ last' = Step("install", IF ok THEN "provider_ok" ELSE "provider_raised")
        /\ UNCHANGED <<name, trusted, isTerminal, updateLogic, isUpdatable,
                       updatingFrom, file, primarySens, secondarySens,
                       updateVisible, updateSens, banner, rows, modalOpen, idleq,
                       calls, modalCalls, emitted>>

\* lines 245-248
InstallAfter ==
    \E t \in BagToSet(threads) :
        /\ UNCHANGED envVars
        /\ t.kind = "install" /\ t.pc = "after"
        /\ primarySens' = PrimaryAfter(status)
        /\ secondarySens' = SecondaryAfter(status, isTerminal)
        /\ idleq' = Append(idleq, "complete_load")
        /\ threads' = End(t)
        /\ last' = Finish(t, "done")
        /\ UNCHANGED <<name, status, trusted, isTerminal, updateLogic,
                       isUpdatable, updatingFrom, installed, file, updateVisible,
                       updateSens, banner, rows, modalOpen, calls, modalCalls, emitted>>

---------------------------------------------------------------------------
(* update_action_button_clicked, lines 315-340: a work unit of its own.    *)

UpdateClick ==
    /\ UNCHANGED envVars
    /\ updateVisible /\ updateSens
    /\ ~modalOpen
    /\ CanSpawn
    /\ threads' = Spawn(Thread("update", "start"))
    /\ last' = Step("update", "clicked")
    /\ UNCHANGED <<name, status, trusted, isTerminal, updateLogic, isUpdatable,
                   updatingFrom, installed, file, primarySens, secondarySens,
                   updateVisible, updateSens, banner, rows, modalOpen, idleq,
                   calls, modalCalls, emitted>>

\* Mutant: check_updates() is called before update_from_url.
UpdateStart_PollsFirst ==
    \E t \in BagToSet(threads) :
        /\ UNCHANGED envVars
        /\ t.kind = "update" /\ t.pc = "start"
        /\ idleq' = Append(idleq, "sens_F")
        /\ \E m \in check_url(DictGet(read_config_for_app(file, name), "update_url")) :
             threads' = Replace(t, [t EXCEPT !.pc = "begin", !.mgr = m])
                        (+) SetToBag({Thread("check", "start")})
        /\ last' = Step("update", "step")
        /\ UNCHANGED <<name, status, trusted, isTerminal, updateLogic,
                       isUpdatable, updatingFrom, installed, file, primarySens,
                       secondarySens, updateVisible, updateSens, banner, rows,
                       modalOpen, calls, modalCalls, emitted>>

\* lines 317-320
UpdateStart ==
    \E t \in BagToSet(threads) :
        /\ UNCHANGED envVars
        /\ t.kind = "update" /\ t.pc = "start"
        /\ idleq' = Append(idleq, "sens_F")
        /\ \E m \in check_url(DictGet(read_config_for_app(file, name), "update_url")) :
             threads' = Replace(t, [t EXCEPT !.pc = "begin", !.mgr = m])
        /\ last' = Step("update", "step")
        /\ UNCHANGED <<name, status, trusted, isTerminal, updateLogic,
                       isUpdatable, updatingFrom, installed, file, primarySens,
                       secondarySens, updateVisible, updateSens, banner, rows,
                       modalOpen, calls, modalCalls, emitted>>

\* Mutant: the except branch only logs.
UpdateExcept_Silent(t) == [t EXCEPT !.pc = "cleanup", !.failed = TRUE]

\* line 327: the except branch shows the error dialog
UpdateExcept(t) == [t EXCEPT !.pc = "cleanup", !.failed = TRUE, !.err = TRUE]

\* lines 322-327: update_from_url is entered; without a manager it raises
UpdateBegin ==
    \E t \in BagToSet(threads) :
        /\ UNCHANGED envVars
        /\ t.kind = "update" /\ t.pc = "begin"
        /\ IF t.mgr = None
           THEN /\ threads' = Replace(t, UpdateExcept(t))
                /\ UNCHANGED status
           ELSE /\ threads' = Replace(t, [t EXCEPT !.pc = "end"])
                /\ status' = provider_update_begin
        /\ last' = Step("update", IF t.mgr = None THEN "no_manager" ELSE "begin")
        /\ UNCHANGED <<name, trusted, isTerminal, updateLogic, isUpdatable,
                       updatingFrom, installed, file, primarySens, secondarySens,
                       updateVisible, updateSens, banner, rows, modalOpen, idleq,
                       calls, modalCalls, emitted>>

\* lines 322-327: update_from_url returns or raises
UpdateEnd ==
    \E t \in BagToSet(threads) :
        /\ UNCHANGED envVars
        /\ t.kind = "update" /\ t.pc = "end"
        /\ \E ok \in BOOLEAN :
             /\ status' = provider_update_end(ok)
             /\ threads' = Replace(t, IF ok THEN [t EXCEPT !.pc = "cleanup"]
                                           ELSE UpdateExcept(t))
             /\ last' = Step("update", IF ok THEN "updated" ELSE "update_raised")
        /\ UNCHANGED <<name, trusted, isTerminal, updateLogic, isUpdatable,
                       updatingFrom, installed, file, primarySens, secondarySens,
                       updateVisible, updateSens, banner, rows, modalOpen, idleq,
                       calls, modalCalls, emitted>>

\* line 329: manager.cleanup(); on None it raises and the work unit ends
UpdateCleanup ==
    \E t \in BagToSet(threads) :
        /\ UNCHANGED envVars
        /\ t.kind = "update" /\ t.pc = "cleanup"
        /\ IF t.mgr = None
           THEN /\ threads' = End(t)
                /\ last' = Finish(t, "raised")
           ELSE /\ threads' = Replace(t, [t EXCEPT !.pc = "finish", !.cl = t.cl + 1])
                /\ last' = Step("update", "step")
        /\ UNCHANGED <<name, status, trusted, isTerminal, updateLogic,
                       isUpdatable, updatingFrom, installed, file, primarySens,
                       secondarySens, updateVisible, updateSens, banner, rows,
                       modalOpen, idleq, calls, modalCalls, emitted>>

\* lines 331-340: check_updates() starts, complete_load and
\* set_all_btn_sensitivity(True) are queued
UpdateFinish ==
    \E t \in BagToSet(threads) :
        /\ UNCHANGED envVars
        /\ t.kind = "update" /\ t.pc = "finish"
        /\ idleq' = idleq \o <<"complete_load", "sens_T">>
        /\ threads' = Replace(t, Thread("check", "start"))
        /\ last' = Finish(t, "done")
        /\ UNCHANGED <<name, status, trusted, isTerminal, updateLogic,
                       isUpdatable, updatingFrom, installed, file, primarySens,
                       secondarySens, updateVisible, updateSens, banner, rows,
                       modalOpen, calls, modalCalls, emitted>>

---------------------------------------------------------------------------
(* check_updates, lines 469-498.                                           *)

\* Mutant: a url that does not resolve is recorded as "no update".
CheckUnresolved_ForcesFalse(t) ==
    /\ threads' = End(t)
    /\ isUpdatable' = "no"
    /\ last' = Finish(t, "unresolved")

\* lines 480-484: check_url gave None; the row is marked and the work unit
\* returns without assigning is_updatable_from_url
CheckUnresolved(t) ==
    /\ threads' = End(t)
    /\ UNCHANGED isUpdatable
    /\ last' = Finish(t, "unresolved")

\* lines 471-485
CheckStart ==
    \E t \in BagToSet(threads) :
        /\ UNCHANGED envVars
        /\ t.kind = "check" /\ t.pc = "start"
        /\ idleq' = Append(idleq, "upd_hide")
        /\ LET url == DictGet(read_config_for_app(file, name), "update_url")
           IN IF url = None
              THEN /\ threads' = End(t)
                   /\ last' = Finish(t, "no_url")
                   /\ UNCHANGED isUpdatable
              ELSE \E m \in check_url(url) :
                     IF m = None
                     THEN CheckUnresolved(t)
                     ELSE /\ threads' = Replace(t, [t EXCEPT !.pc = "avail", !.mgr = m])
                          /\ last' = Step("check", "step")
                          /\ UNCHANGED isUpdatable
        /\ UNCHANGED <<name, status, trusted, isTerminal, updateLogic,
                       updatingFrom, installed, file, primarySens,
                       secondarySens, updateVisible, updateSens, banner, rows,
                       modalOpen, calls, modalCalls, emitted>>

\* lines 487-498: is_update_available answers, or raises and the work unit ends
CheckAvail ==
    \E t \in BagToSet(threads) :
        /\ UNCHANGED envVars
        /\ t.kind = "check" /\ t.pc = "avail"
        /\ \E res \in {"yes", "no", "raise"} :
             IF res = "raise"
             THEN /\ last' = Finish(t, "raised")
                  /\ UNCHANGED <<isUpdatable, idleq>>
             ELSE /\ isUpdatable' = res
                  /\ idleq' = Append(idleq, IF res = "yes" THEN "upd_show_T" ELSE "upd_show_F")
                  /\ last' = Finish(t, "done")
        /\ threads' = End(t)
        /\ UNCHANGED <<name, status, trusted, isTerminal, updateLogic,
                       updatingFrom, installed, file, primarySens, secondarySens,
                       updateVisible, updateSens, banner, rows, modalOpen, calls,
                       modalCalls, emitted>>

---------------------------------------------------------------------------
(* The website and update url rows.                                        *)

\* Mutant: the record is built anew instead of being read first.
WriteField_FreshRecord(conf, app_conf, field, text) ==
    set_json_config(DictSet(conf, app_conf["b64name"],
                            DictSet([b64name |-> app_conf["b64name"]], field, text)))

\* lines 465-467 and 516-518: the read-modify-write of one field of the
\* app's record in the conf read before
WriteField(conf, app_conf, field, text) ==
    set_json_config(DictSet(conf, app_conf["b64name"], DictSet(app_conf, field, text)))

\* on_web_browser_input_apply, lines 454-467
WebsiteApply ==
    /\ UNCHANGED envVars
    /\ rows
    /\ ~modalOpen
    /\ \E text \in WebsiteTexts :
         LET conf == read_json_config(file)
             app_conf == read_config_for_app(file, name)
         IN IF text # "" /\ ~url_is_valid(text)
            THEN /\ last' = Step("website", "invalid")
                 /\ UNCHANGED file
            ELSE /\ file' = WriteField(conf, app_conf, "website", text)
                 /\ last' = Step("website", "saved")
    /\ UNCHANGED <<name, status, trusted, isTerminal, updateLogic, isUpdatable,
                   updatingFrom, installed, primarySens, secondarySens,
                   updateVisible, updateSens, banner, rows, modalOpen, threads,
                   idleq, calls, modalCalls, emitted>>

\* on_app_update_url_apply, lines 500-518: a work unit of its own
UrlApply ==
    /\ UNCHANGED envVars
    /\ rows
    /\ ~modalOpen
    /\ CanSpawn
    /\ \E text \in UpdateUrlTexts :
         threads' = Spawn([Thread("urlapply", "start") EXCEPT !.text = text])
    /\ last' = Step("urlapply", "changed")
    /\ UNCHANGED <<name, status, trusted, isTerminal, updateLogic, isUpdatable,
                   updatingFrom, installed, file, primarySens, secondarySens,
                   updateVisible, updateSens, banner, rows, modalOpen, idleq,
                   calls, modalCalls, emitted>>

\* lines 503-504
UrlApplyRead ==
    \E t \in BagToSet(threads) :
        /\ UNCHANGED envVars
        /\ t.kind = "urlapply" /\ t.pc = "start"
        /\ threads' = Replace(t, [t EXCEPT !.pc = "resolve",
                                           !.snap = read_json_config(file),
                                           !.rec = read_config_for_app(file, name)])
        /\ last' = Step("urlapply", "step")
        /\ UNCHANGED <<name, status, trusted, isTerminal, updateLogic,
                       isUpdatable, updatingFrom, installed, file, primarySens,
                       secondarySens, updateVisible, updateSens, banner, rows,
                       modalOpen, idleq, calls, modalCalls, emitted>>

\* lines 510-518
UrlApplyWrite ==
    \E t \in BagToSet(threads) :
        /\ UNCHANGED envVars
        /\ t.kind = "urlapply" /\ t.pc = "resolve"
        /\ \E m \in check_url(t.text) :
             IF m = None
             THEN /\ last' = Finish(t, "unresolved")
                  /\ UNCHANGED file
             ELSE /\ file' = WriteField(t.snap, t.rec, "update_url", t.text)
                  /\ last' = Finish([t EXCEPT !.mgr = m], "saved")
        /\ threads' = End(t)
        /\ UNCHANGED <<name, status, trusted, isTerminal, updateLogic,
                       isUpdatable, updatingFrom, installed, primarySens,
                       secondarySens, updateVisible, updateSens, banner, rows,
                       modalOpen, idleq, calls, modalCalls, emitted>>

---------------------------------------------------------------------------
(* The environment variable editor, lines 520-558, 601-620 and 735-806.    *)
(* A text is the sequence of its characters.                               *)

MaxRows == 3        \* row forms alive in the editor

\* Texts typed into a key entry and into a value entry.
EnvKeys == {<<>>, <<"A">>, <<"A", " ">>}
EnvValues == {<<"1">>, <<"1", " ", "2">>}

\* str.strip()
Whitespace == {" "}
RECURSIVE lstrip(_)
lstrip(s) == IF s # <<>> /\ Head(s) \in Whitespace THEN lstrip(Tail(s)) ELSE s
RECURSIVE rstrip(_)
rstrip(s) ==
    IF s # <<>> /\ s[Len(s)] \in Whitespace
    THEN rstrip(SubSeq(s, 1, Len(s) - 1)) ELSE s
strip(s) == rstrip(lstrip(s))

\* shlex.quote(s): '' for the empty text, s itself when every character is
\* safe, else s in single quotes with each ' written as '"'"'
SafeChars == {"A", "1", "2", "="}
RECURSIVE quote_escape(_)
quote_escape(s) ==
    IF s = <<>> THEN <<>>
    ELSE (IF Head(s) = "'" THEN <<"'", "\"", "'", "\"", "'">> ELSE <<Head(s)>>)
         \o quote_escape(Tail(s))
shlex_quote(s) ==
    IF s = <<>> THEN <<"'", "'">>
    ELSE IF \A i \in 1..Len(s) : s[i] \in SafeChars THEN s
    ELSE <<"'">> \o quote_escape(s) \o <<"'">>

\* f'{key}={value}', line 614
EnvEntry(key, value) == key \o <<"=">> \o value

\* str.split(sep): the parts between the occurrences of sep
RECURSIVE split(_, _)
split(s, sep) ==
    IF \E i \in 1..Len(s) : s[i] = sep
    THEN LET i == CHOOSE j \in 1..Len(s) :
                     s[j] = sep /\ \A h \in 1..(j - 1) : s[h] # sep
         IN <<SubSeq(s, 1, i - 1)>> \o split(SubSeq(s, i + 1, Len(s)), sep)
    ELSE <<s>>

\* create_edit_env_var_form(key, value), lines 745-746: the two entries
EnvForm(key, value) ==
    [key |-> key, val |-> value, kerr |-> FALSE, vsens |-> Len(key) > 0]

\* The row a new form gets.
FreeRow == CHOOSE r \in 1..MaxRows :
               r \notin DOMAIN envWidgets /\ \A q \in 1..(r - 1) : q \in DOMAIN envWidgets

\* The entries that still exist: those in the list or in the container.
Alive(w, list, shown) ==
    [r \in {list[i] : i \in 1..Len(list)} \cup shown |-> w[r]]

\* lines 528-533: the rows of env_variables_widgets whose key text is key
CountKey(w, list, key) == Cardinality({i \in 1..Len(list) : w[list[i]].key = key})

\* on_env_var_value_changed(widget, key_widget, value_widget), lines 520-539,
\* for the entries of row r: the entries and the save button after it
EnvVarValueChanged(w, list, r, save) ==
    LET key == w[r].key
        counts == CountKey(w, list, key)
    IN IF key = <<>>
       THEN [w |-> [w EXCEPT ![r].vsens = FALSE, ![r].kerr = FALSE], save |-> save]
       ELSE [w |-> [w EXCEPT ![r].kerr = (counts > 1), ![r].vsens = (counts = 1)],
             save |-> (counts = 1)]

\* update_env_variables, lines 601-614: no value entry ever gets the error
\* class, so only the key entry's counts
RECURSIVE update_env_variables(_, _)
update_env_variables(w, list) ==
    IF list = <<>> THEN <<>>
    ELSE LET row == w[Head(list)]
             key == strip(row.key)
             value == shlex_quote(strip(row.val))
         IN (IF ~row.kerr /\ key # <<>> THEN <<EnvEntry(key, value)>> ELSE <<>>)
            \o update_env_variables(w, Tail(list))

\* line 801: k, v = kv.split('=') takes exactly two parts; any other number
\* raises ValueError
Unpacks(kv) == Len(split(kv, "=")) = 2

\* The entries create_edit_env_vars_row gets through: all of them, or those
\* before the first one that does not unpack.
Unpacked(committed) ==
    IF \A i \in 1..Len(committed) : Unpacks(committed[i]) THEN committed
    ELSE LET i == CHOOSE j \in 1..Len(committed) :
                      /\ ~Unpacks(committed[j])
                      /\ \A h \in 1..(j - 1) : Unpacks(committed[h])
         IN SubSeq(committed, 1, i - 1)

\* create_edit_env_vars_row, lines 799-804: one form per committed entry
EnvLoaded(committed) ==
    [r \in 1..Len(committed) |->
        LET kv == split(committed[r], "=") IN EnvForm(kv[1], kv[2])]

---------------------------------------------------------------------------
(* The main loop runs the idle callback at the head of its queue.          *)

\* complete_load raises at line 213: an entry of env_variables does not unpack
LoadFaults ==
    /\ status = "INSTALLED"
    /\ Unpacked(envCommitted) # envCommitted

\* complete_load, lines 139-223. On an INSTALLED package it builds the editor
\* (line 213) and then starts check_updates (line 216); a ValueError at line
\* 801 ends it before the editor's group is put on the page.
CompleteLoad ==
    /\ IF status = "INSTALLED"
       THEN /\ primarySens' = PrimaryAfter(status)
            /\ secondarySens' = SecondaryAfter(status, isTerminal)
            /\ banner' = FALSE
            /\ rows' = TRUE
            /\ saveSens' = FALSE
            /\ LET loaded == Unpacked(envCommitted)
               IN /\ envWidgets' = EnvLoaded(loaded)
                  /\ envList' = [r \in 1..Len(loaded) |-> r]
                  /\ envShown' = 1..Len(loaded)
            /\ envGroup' = ~LoadFaults
            /\ threads' = IF LoadFaults THEN threads
                                          ELSE Spawn(Thread("check", "start"))
       ELSE /\ primarySens' = (PrimaryAfter(status) /\ trusted)
            /\ secondarySens' = (SecondaryAfter(status, isTerminal) /\ trusted)
            /\ banner' = ~trusted
            /\ rows' = FALSE
            /\ envGroup' = FALSE
            /\ UNCHANGED <<threads, envWidgets, envList, envShown, saveSens>>
    /\ UNCHANGED <<updateVisible, updateSens, envCommitted>>

\* set_all_btn_sensitivity(s), lines 353-357
SetAllBtnSensitivity(s) ==
    /\ primarySens' = s
    /\ secondarySens' = s
    /\ updateSens' = s
    /\ UNCHANGED <<updateVisible, banner, rows, threads, envVars>>

\* the update button callbacks queued by check_updates, lines 473, 490, 498
UpdateButton(visible, sens) ==
    /\ updateVisible' = visible
    /\ updateSens' = sens
    /\ UNCHANGED <<primarySens, secondarySens, banner, rows, threads, envVars>>

\* restore_launch_button, lines 369-372
RestoreLaunchButton ==
    /\ secondarySens' = TRUE
    /\ UNCHANGED <<primarySens, updateVisible, updateSens, banner, rows, threads,
                   envVars>>

IdleRun ==
    /\ idleq # <<>>
    /\ LET cb == Head(idleq)
       IN CASE cb = "complete_load" -> CompleteLoad
            [] cb = "sens_F" -> SetAllBtnSensitivity(FALSE)
            [] cb = "sens_T" -> SetAllBtnSensitivity(TRUE)
            [] cb = "upd_hide" -> UpdateButton(FALSE, updateSens)
            [] cb = "upd_show_T" -> UpdateButton(TRUE, TRUE)
            [] cb = "upd_show_F" -> UpdateButton(TRUE, FALSE)
            [] OTHER -> RestoreLaunchButton
    /\ idleq' = Tail(idleq)
    /\ last' = Step("idle", IF Head(idleq) = "complete_load" /\ LoadFaults
                            THEN "valueerror" ELSE "ran")
    /\ UNCHANGED <<name, status, trusted, isTerminal, updateLogic, isUpdatable,
                   updatingFrom, installed, file, modalOpen, calls, modalCalls, emitted>>

---------------------------------------------------------------------------
(* The handlers of the environment variable editor.                       *)

\* on_create_edit_row_btn_clicked, lines 616-618
EnvAdd ==
    /\ rows /\ envGroup
    /\ Cardinality(DOMAIN envWidgets) < MaxRows
    /\ LET r == FreeRow
       IN /\ envWidgets' = [q \in DOMAIN envWidgets \cup {r} |->
                               IF q = r THEN EnvForm(<<>>, <<>>) ELSE envWidgets[q]]
          /\ envList' = Append(envList, r)
          /\ envShown' = envShown \cup {r}
    /\ last' = Step("env_add", "added")
    /\ UNCHANGED <<name, status, trusted, isTerminal, updateLogic, isUpdatable,
                   updatingFrom, installed, file, primarySens, secondarySens,
                   updateVisible, updateSens, banner, rows, modalOpen, threads,
                   idleq, calls, modalCalls, emitted, envGroup, saveSens, envCommitted>>

\* The 'changed' signal of a key entry: the text is replaced, then
\* on_env_var_value_changed runs.
EnvEditKey ==
    /\ rows /\ envGroup
    /\ \E r \in envShown : \E key \in EnvKeys \ {envWidgets[r].key} :
         LET res == EnvVarValueChanged([envWidgets EXCEPT ![r].key = key],
                                       envList, r, saveSens)
         IN /\ envWidgets' = res.w
            /\ saveSens' = res.save
    /\ last' = Step("env_key", "changed")
    /\ UNCHANGED <<name, status, trusted, isTerminal, updateLogic, isUpdatable,
                   updatingFrom, installed, file, primarySens, secondarySens,
                   updateVisible, updateSens, banner, rows, modalOpen, threads,
                   idleq, calls, modalCalls, emitted, envList, envShown,
                   envGroup, envCommitted>>

\* The 'changed' signal of a value entry, which takes input only while
\* sensitive.
EnvEditValue ==
    /\ rows /\ envGroup
    /\ \E r \in envShown : \E value \in EnvValues \ {envWidgets[r].val} :
         /\ envWidgets[r].vsens
         /\ LET res == EnvVarValueChanged([envWidgets EXCEPT ![r].val = value],
                                          envList, r, saveSens)
            IN /\ envWidgets' = res.w
               /\ saveSens' = res.save
    /\ last' = Step("env_value", "changed")
    /\ UNCHANGED <<name, status, trusted, isTerminal, updateLogic, isUpdatable,
                   updatingFrom, installed, file, primarySens, secondarySens,
                   updateVisible, updateSens, banner, rows, modalOpen, threads,
                   idleq, calls, modalCalls, emitted, envList, envShown,
                   envGroup, envCommitted>>

\* lines 547-552: the list without its first row whose key text is key
PopFirst(w, list, key) ==
    IF \E i \in 1..Len(list) : w[list[i]].key = key
    THEN LET i == CHOOSE j \in 1..Len(list) :
                     /\ w[list[j]].key = key
                     /\ \A h \in 1..(j - 1) : w[list[h]].key # key
         IN SubSeq(list, 1, i - 1) \o SubSeq(list, i + 1, Len(list))
    ELSE list

\* on_delete_env_var_clicked of row r's delete button, lines 546-558;
\* provider.update_desktop_file writes no state of the page
EnvDelete ==
    /\ rows /\ envGroup
    /\ \E r \in envShown :
         LET list == PopFirst(envWidgets, envList, envWidgets[r].key)
         IN /\ envList' = list
            /\ envCommitted' = update_env_variables(envWidgets, list)
            /\ envShown' = envShown \ {r}
            /\ envWidgets' = Alive(envWidgets, list, envShown \ {r})
    /\ last' = Step("env_delete", "deleted")
    /\ UNCHANGED <<name, status, trusted, isTerminal, updateLogic, isUpdatable,
                   updatingFrom, installed, file, primarySens, secondarySens,
                   updateVisible, updateSens, banner, rows, modalOpen, threads,
                   idleq, calls, modalCalls, emitted, envGroup, saveSens>>

\* on_save_env_vars_clicked, lines 541-544
EnvSave ==
    /\ rows /\ envGroup
    /\ saveSens
    /\ saveSens' = FALSE
    /\ envCommitted' = update_env_variables(envWidgets, envList)
    /\ last' = Step("env_save", "saved")
    /\ UNCHANGED <<name, status, trusted, isTerminal, updateLogic, isUpdatable,
                   updatingFrom, installed, file, primarySens, secondarySens,
                   updateVisible, updateSens, banner, rows, modalOpen, threads,
                   idleq, calls, modalCalls, emitted, envWidgets, envList,
                   envShown, envGroup>>

---------------------------------------------------------------------------

\* The package's life: every handler but the two text rows'.
Next ==
    \/ PrimaryClick
    \/ ConflictModalClose
    \/ SecondaryClick
    \/ AnimRun
    \/ Unlock
    \/ LoadRun
    \/ InstallProvider
    \/ InstallAfter
    \/ UpdateClick
    \/ UpdateStart
    \/ UpdateBegin
    \/ UpdateEnd
    \/ UpdateCleanup
    \/ UpdateFinish
    \/ CheckStart
    \/ CheckAvail
    \/ IdleRun

Spec == Init /\ [][Next]_vars

\* The page of an installed package, its text rows edited, until the package
\* is removed.
InitConf == Init /\ status = "INSTALLED" /\ ~isTerminal

NextConf ==
    \/ LoadRun
    \/ IdleRun
    \/ CheckStart
    \/ CheckAvail
    \/ WebsiteApply
    \/ UrlApply
    \/ UrlApplyRead
    \/ UrlApplyWrite
    \/ PrimaryClick

SpecConf == InitConf /\ [][NextConf]_vars

\* The page of an installed package after complete_load built its rows, the
\* environment variable editor in use.
EnvCommittedAtLoad == {<<>>, <<EnvEntry(<<"A">>, <<"1">>)>>}

IdlePage(names, doc, committed) ==
    /\ name \in names
    /\ status = "INSTALLED"
    /\ trusted = TRUE
    /\ isTerminal = FALSE
    /\ updateLogic = None
    /\ isUpdatable = "unset"
    /\ updatingFrom = None
    /\ installed = {"new"}
    /\ file = doc
    /\ primarySens = TRUE
    /\ secondarySens = TRUE
    /\ updateVisible = FALSE
    /\ updateSens = TRUE
    /\ banner = FALSE
    /\ rows = TRUE
    /\ modalOpen = FALSE
    /\ threads = EmptyBag
    /\ idleq = <<>>
    /\ calls = <<>>
    /\ modalCalls = 0
    /\ emitted = FALSE
    /\ envCommitted = committed
    /\ envWidgets = EnvLoaded(committed)
    /\ envList = [r \in 1..Len(committed) |-> r]
    /\ envShown = 1..Len(committed)
    /\ envGroup = TRUE
    /\ saveSens = FALSE
    /\ last = Step("idle", "ran")

InitEnv == \E committed \in EnvCommittedAtLoad : IdlePage(Names, NoFile, committed)

NextEnv ==
    \/ EnvAdd
    \/ EnvEditKey
    \/ EnvEditValue
    \/ EnvDelete
    \/ EnvSave

SpecEnv == InitEnv /\ [][NextEnv]_vars

\* The page of an installed package opened on a list that an earlier commit
\* left in env_variables: load builds the editor from it, and a delete or an
\* added row follow without any entry being edited.
ReloadKeys == {<<"A">>, <<"B">>}
ReloadValues == EnvValues \cup {<<"1", "=", "2">>}

\* the entries update_env_variables writes for these keys and values
ReloadEntries ==
    {EnvEntry(strip(k), shlex_quote(strip(v))) : k \in ReloadKeys, v \in ReloadValues}

ReloadCommitted ==
    {<<>>} \cup {<<e>> : e \in ReloadEntries}
           \cup {p \in ReloadEntries \X ReloadEntries :
                     split(p[1], "=")[1] # split(p[2], "=")[1]}

InitReload ==
    /\ name \in Names
    /\ status = "INSTALLED"
    /\ trusted = TRUE
    /\ isTerminal = FALSE
    /\ updateLogic = None
    /\ isUpdatable = "unset"
    /\ updatingFrom = None
    /\ installed = {"new"}
    /\ file = NoFile
    /\ primarySens = TRUE
    /\ secondarySens = TRUE
    /\ updateVisible = FALSE
    /\ updateSens = TRUE
    /\ banner = FALSE
    /\ rows = FALSE
    /\ modalOpen = FALSE
    /\ threads = SetToBag({Thread("load", "run")})
    /\ idleq = <<>>
    /\ calls = <<>>
    /\ modalCalls = 0
    /\ emitted = FALSE
    /\ envWidgets = <<>>
    /\ envList = <<>>
    /\ envShown = {}
    /\ envGroup = FALSE
    /\ saveSens = FALSE
    /\ envCommitted \in ReloadCommitted
    /\ last = Step("init", "ok")

\* No update url is stored, so check_updates ends in its first step.
NextReload ==
    \/ LoadRun
    \/ IdleRun
    \/ CheckStart
    \/ EnvAdd
    \/ EnvDelete

SpecReload == InitReload /\ [][NextReload]_vars

---------------------------------------------------------------------------
(* set_json_config and read_json_config step by step, json_config.py lines *)
(* 14-29: a save opens the file for writing, which empties it, and then    *)
(* writes the text; the process can stop, or the write fail, in between.   *)

\* The mappings a handler saves: one field of the app's record written.
SavedData(doc) ==
    {DictSet(read_json_config(doc), B64[name],
             DictSet(read_config_for_app(doc, name), f, text)) :
        f \in {"website", "update_url"}, text \in WebsiteTexts \cup UpdateUrlTexts}

\* line 27: with open(path, 'w+')
SaveOpen ==
    /\ BagToSet(threads) = {}
    /\ Decodes(file)
    /\ \E data \in SavedData(file) :
         threads' = Spawn([Thread("save", "write") EXCEPT
                              !.rec = read_json_config(file), !.snap = data])
    /\ file' = Truncated
    /\ last' = Step("save", "opened")
    /\ UNCHANGED envVars
    /\ UNCHANGED <<name, status, trusted, isTerminal, updateLogic, isUpdatable,
                   updatingFrom, installed, primarySens, secondarySens,
                   updateVisible, updateSens, banner, rows, modalOpen, idleq,
                   calls, modalCalls, emitted>>

\* line 28: file.write(json.dumps(data)), or the write fails or the process
\* stops before it
SaveWrite ==
    /\ \E t \in BagToSet(threads) :
         /\ t.kind = "save"
         /\ threads' = End(t)
         /\ \E ok \in BOOLEAN :
              IF ok
              THEN /\ file' = dumps(t.snap)
                   /\ last' = Step("save", "written")
              ELSE /\ UNCHANGED file
                   /\ last' = Step("save", "stopped")
    /\ UNCHANGED envVars
    /\ UNCHANGED <<name, status, trusted, isTerminal, updateLogic, isUpdatable,
                   updatingFrom, installed, primarySens, secondarySens,
                   updateVisible, updateSens, banner, rows, modalOpen, idleq,
                   calls, modalCalls, emitted>>

\* lines 14-22: read_json_config by another handler or after a restart
StoreLoad ==
    /\ last' = Step("load", IF Decodes(file) THEN "read" ELSE "decode_error")
    /\ UNCHANGED envVars
    /\ UNCHANGED <<name, status, trusted, isTerminal, updateLogic, isUpdatable,
                   updatingFrom, installed, file, primarySens, secondarySens,
                   updateVisible, updateSens, banner, rows, modalOpen, threads,
                   idleq, calls, modalCalls, emitted>>

InitStore == \E doc \in {NoFile} \cup {dumps(c) : c \in InitConfs} : IdlePage(Names, doc, <<>>)

NextStore ==
    \/ SaveOpen
    \/ SaveWrite
    \/ StoreLoad

SpecStore == InitStore /\ [][NextStore]_vars

\* The page of an installed package whose name may be the empty text, its
\* text rows edited.
InitIdentity ==
    \E n \in Names \cup {""}, doc \in {NoFile} \cup {dumps(c) : c \in InitConfs} :
        IdlePage({n}, doc, <<>>)

NextIdentity ==
    \/ WebsiteApply
    \/ UrlApply
    \/ UrlApplyRead
    \/ UrlApplyWrite

SpecIdentity == InitIdentity /\ [][NextIdentity]_vars


\* The page opened on a list element in a status its provider left it in,
\* UPDATE_AVAILABLE and ERROR included.
InitListed ==
    /\ name \in Names
    /\ status \in {"NOT_INSTALLED", "INSTALLED", "UPDATE_AVAILABLE", "ERROR"}
    /\ trusted \in (IF status \in {"INSTALLED", "UPDATE_AVAILABLE"} THEN {TRUE} ELSE BOOLEAN)
    /\ isTerminal \in BOOLEAN
    /\ updateLogic = None
    /\ isUpdatable = "unset"
    /\ updatingFrom = None
    /\ installed \in (IF status \in {"INSTALLED", "UPDATE_AVAILABLE"}
                      THEN {{"new"}} ELSE {{}, {"old"}})
    /\ file \in {NoFile} \cup {dumps(c) : c \in InitConfs}
    /\ primarySens = TRUE
    /\ secondarySens = TRUE
    /\ updateVisible = FALSE
    /\ updateSens = TRUE
    /\ banner = FALSE
    /\ rows = FALSE
    /\ modalOpen = FALSE
    /\ threads = SetToBag({Thread("load", "run")})
    /\ idleq = <<>>
    /\ calls = <<>>
    /\ modalCalls = 0
    /\ emitted = FALSE
    /\ envWidgets = <<>>
    /\ envList = <<>>
    /\ envShown = {}
    /\ envGroup = FALSE
    /\ saveSens = FALSE
    /\ envCommitted = <<>>
    /\ last = Step("init", "ok")

SpecListed == InitListed /\ [][Next]_vars

---------------------------------------------------------------------------
(* Properties.                                                             *)

\* The app's record is in the document read back from disk.
HasRecord(doc) == B64[name] \in DOMAIN read_json_config(doc)
\* provider.install_file was called.
InstallCalled == \E i \in 1..Len(calls) : calls[i] = "install_file"

\* C1: after every uninstall of an INSTALLED package the package's record is
\* gone from the persisted 'apps' mapping, also when provider.uninstall
\* raised.
C1_UninstallRemovesRecord ==
    last.out \in {"uninstalled", "uninstall_raised", "keyerror"} => ~HasRecord(file)

\* C2: install invoked on a NOT_INSTALLED package whose identity is already
\* installed, with no update_logic set, presents the conflict dialog instead
\* of installing; while the dialog is open the status stays NOT_INSTALLED and
\* the Provider's install_file and uninstall are not called.
C2_ConflictBlocksProvider ==
    /\ modalOpen =>
          status = "NOT_INSTALLED" /\ Len(calls) = modalCalls /\ updateLogic = None
    /\ (/\ last.op = "primary"
        /\ last.out \in {"installing", "untrusted", "replace_raised"}
        /\ updateLogic = None) => ~provider_is_updatable(installed)

C2_Witness ==
    modalOpen /\ last.op = "primary" /\ last.out = "modal" /\ provider_is_updatable(installed)

\* C3: on the response 'cancel' the install attempt is aborted: update_logic
\* is None, the status is still NOT_INSTALLED, the existing installation is
\* still installed, no Provider install or uninstall call was made and no
\* install work unit runs.
C3_CancelAborts ==
    last.op = "cancel" =>
        /\ updateLogic = None
        /\ status = "NOT_INSTALLED"
        /\ "old" \in installed
        /\ Len(calls) = modalCalls
        /\ ~modalOpen
        /\ \A t \in BagToSet(threads) : t.kind # "install"

C3_Witness == last.op = "cancel" /\ last.out = "returned" /\ ~modalOpen

\* C4: when the install work unit has finished the package is not left in
\* INSTALLING, and after a failed provider.install_file it is in ERROR.
C4_FailedInstallEndsInError ==
    (last.op = "install" /\ last.out = "done") =>
        /\ status # "INSTALLING"
        /\ last.failed => status = "ERROR"

\* C5: an untrusted package that install moved to INSTALLING has its
\* Provider install performed.
C5_UntrustedInstallPerformed ==
    (status = "INSTALLING" /\ ~trusted) => InstallCalled

\* C6: no step turns trusted from true to false, and only the unlock action
\* turns it from false to true.
C6_TrustMonotone ==
    [][/\ trusted => trusted'
       /\ (~trusted /\ trusted') => last'.op = "unlock"]_vars

C6_Witness == last.op = "unlock" /\ trusted

\* C7: the launch action calls provider.run only when the package is trusted
\* and not a terminal app; otherwise it changes nothing; in every case, also
\* when provider.run raises, installed_status is unchanged.
C7_LaunchGuard ==
    [][last'.op = "launch" =>
          /\ status' = status
          /\ last'.out \in {"ran", "run_raised"} => trusted /\ ~isTerminal
          /\ last'.out = "blocked" =>
                /\ ~(trusted /\ ~isTerminal) \/ status \notin {"INSTALLED", "NOT_INSTALLED"}
                /\ UNCHANGED <<name, status, trusted, isTerminal, updateLogic,
                               isUpdatable, updatingFrom, installed, file,
                               primarySens, secondarySens, updateVisible,
                               updateSens, banner, rows, modalOpen, threads,
                               idleq, calls, modalCalls, emitted, envVars>>]_vars

C7_Witness == last.op = "launch" /\ last.out = "run_raised" /\ status = "INSTALLED"

C9_CleanupExactlyOnce == last.mgr => last.cl = 1

\* C10: a write of the website or of the update url through the
\* read-modify-write path, read back from disk, leaves every other field of
\* the app's record and every other record as they were read.
FrameOk(before, after, key, field) ==
    /\ DOMAIN after = DOMAIN before \cup {key}
    /\ \A k \in DOMAIN before \ {key} : after[k] = before[k]
    /\ key \in DOMAIN before =>
          \A f \in DOMAIN before[key] \ {field} :
              f \in DOMAIN after[key] /\ after[key][f] = before[key][f]

C10_WriteOneFieldFrame ==
    [][/\ (last'.op = "website" /\ last'.out = "saved") =>
             FrameOk(read_json_config(file), read_json_config(file'), B64[name], "website")
       /\ (last'.op = "urlapply" /\ last'.out = "saved") =>
             \E t \in BagToSet(threads) :
                 /\ t.kind = "urlapply" /\ t.pc = "resolve"
                 /\ FrameOk(t.snap, read_json_config(file'), B64[name], "update_url")]_vars

C10_Witness ==
    /\ last.op = "website" /\ last.out = "saved"
    /\ HasRecord(file)
    /\ {"extra", "update_url", "website"} \subseteq DOMAIN read_json_config(file)[B64[name]]
    /\ OtherKey \in DOMAIN read_json_config(file)

\* C11: when the poll's check_url gives None for the stored update url the
\* poll ends with is_updatable_from_url as it was (unset stays unset) and
\* with installed_status unchanged; no step of a poll writes installed_status.
C11_UnresolvedPollIsSoft ==
    [][last'.op = "check" =>
          /\ status' = status
          /\ last'.out = "unresolved" => isUpdatable' = isUpdatable]_vars

C11_Witness ==
    /\ last.op = "check" /\ last.out = "unresolved"
    /\ isUpdatable = "unset"
    /\ DictGet(read_config_for_app(file, name), "update_url") # None

\* The committed entry of the entries w[r], and its presence in a list.
RowEntry(w, r) == EnvEntry(strip(w[r].key), shlex_quote(strip(w[r].val)))
Holds(committed, e) == \E i \in 1..Len(committed) : committed[i] = e

\* C12: every row of the working set whose key text occurs in more than one
\* row is marked invalid, and after a commit no such row has its entry in
\* the committed list.
C12_DuplicateKeysExcluded ==
    \A i \in 1..Len(envList) :
        LET r == envList[i]
        IN (/\ envWidgets[r].key # <<>>
            /\ CountKey(envWidgets, envList, envWidgets[r].key) > 1) =>
              /\ envWidgets[r].kerr
              /\ last.op \in {"env_save", "env_delete"} =>
                    ~Holds(envCommitted, RowEntry(envWidgets, r))

\* C13: after the delete of a row, a remaining row that carries the deleted
\* row's key and is the only one to carry it is valid and has its entry in
\* the list the delete committed.
C13_DeleteRevalidates ==
    [][last'.op = "env_delete" =>
          \A d \in envShown \ envShown' :
              \A i \in 1..Len(envList') :
                  LET r == envList'[i]
                  IN (/\ envWidgets[d].key # <<>>
                      /\ envWidgets'[r].key = envWidgets[d].key
                      /\ CountKey(envWidgets', envList', envWidgets[d].key) = 1) =>
                        /\ ~envWidgets'[r].kerr
                        /\ Holds(envCommitted', RowEntry(envWidgets', r))]_vars

\* C14: the committed list holds no entry with an empty key and no two
\* entries with the same key.
CommittedKey(e) == split(e, "=")[1]

C14_CommittedKeysUnique ==
    \A i \in 1..Len(envCommitted) :
        /\ CommittedKey(envCommitted[i]) # <<>>
        /\ \A j \in 1..Len(envCommitted) :
              i # j => CommittedKey(envCommitted[i]) # CommittedKey(envCommitted[j])

\* The (state, action) pairs of the transition table.
ValidUninstall(st) == st \in {"INSTALLED", "UPDATE_AVAILABLE", "ERROR"}
ValidInstall(st) == st = "NOT_INSTALLED"
ValidUpdate(st, upd) == st = "UPDATE_AVAILABLE" \/ (st = "INSTALLED" /\ upd = "yes")

\* C15: a click in a state that is no source state of its action changes
\* neither installed_status nor the Provider's call history and starts no
\* work unit; a click in a source state gives the state of the transition
\* table: UNINSTALLING for uninstall, INSTALLING (or the conflict dialog) for
\* install, the same status for launch.
C15_TransitionTable ==
    [][/\ last'.op = "primary" =>
             /\ ValidUninstall(status) => status' = "UNINSTALLING"
             /\ ValidInstall(status) =>
                   \/ status' = "INSTALLING"
                   \/ status' = status /\ modalOpen'
             /\ (~ValidUninstall(status) /\ ~ValidInstall(status)) =>
                   UNCHANGED <<status, calls, threads>>
       /\ last'.op = "launch" =>
             /\ status' = status
             /\ ~(trusted /\ ~isTerminal) => UNCHANGED <<calls, threads>>
       /\ (last'.op = "update" /\ last'.out = "clicked") =>
             (~ValidUpdate(status, isUpdatable) => UNCHANGED <<status, calls, threads>>)]_vars

\* C18: a click on the primary button of a package that is INSTALLED,
\* UPDATE_AVAILABLE or in ERROR is taken as uninstall: installed_status
\* becomes UNINSTALLING and provider.uninstall is called, and the record is
\* removed only after that call.
C18_UninstallAccepted ==
    [][(last'.op = "primary" /\ ValidUninstall(status)) =>
          /\ status' = "UNINSTALLING"
          /\ calls' = Append(calls, "uninstall")
          /\ last'.out \in {"uninstalled", "uninstall_raised", "keyerror"}]_vars

\* C16: at every point of a save, and after a save that stopped or failed,
\* the file decodes and read_json_config gives the whole mapping of before
\* the save or the whole mapping saved.
C16_SaveIsAtomic ==
    /\ Decodes(file)
    /\ \A t \in BagToSet(threads) :
          t.kind = "save" => read_json_config(file) \in {t.rec, t.snap}

\* C17: for a package whose name is the empty text no write through
\* read_config_for_app succeeds, and the persisted mapping never holds a
\* record under the encoding of the empty name.
C17_EmptyIdentityRejected ==
    name = "" =>
        /\ B64[name] \notin DOMAIN read_json_config(file)
        /\ last.out # "saved"

\* The poll work units in a bag of work units, and the lifecycle ones.
Polls(b) == BagCardinality([t \in {u \in BagToSet(b) : u.kind = "check"} |-> CopiesIn(t, b)])
InFlight(b) == {t \in BagToSet(b) : t.kind \in {"install", "update"}}

C20_LifecycleSerialized ==
    [][(\/ /\ last'.op = "primary"
           /\ last'.out \in {"uninstalled", "uninstall_raised", "keyerror",
                             "installing", "untrusted", "replace_raised"}
        \/ /\ last'.op = "update" /\ last'.out = "clicked") =>
          InFlight(threads) = {}]_vars

\* C21: the save of a background update url write keeps what other writers
\* stored meanwhile: every other field and record is as in the document at
\* the time of the save, and a record removed by an uninstall is not stored
\* again.
C21_NoLostConfigUpdate ==
    [][(last'.op = "urlapply" /\ last'.out = "saved") =>
          /\ FrameOk(read_json_config(file), read_json_config(file'), B64[name], "update_url")
          /\ emitted => ~HasRecord(file')]_vars

\* C22: an install that goes ahead with update_logic REPLACE calls
\* provider.uninstall on the installed package of the same name, which
\* updating_from then references, and calls it before install_file; with
\* KEEP_BOTH provider.uninstall is not called and the installed package
\* stays.
C22_ReplaceUninstallsFirst ==
    [][(last'.out \in {"installing", "replace_raised"} /\ status = "NOT_INSTALLED") =>
          /\ updateLogic' = "REPLACE" =>
                /\ "old" \in installed
                /\ updatingFrom' = "old"
                /\ last'.out = "installing" =>
                      /\ calls' = calls \o <<"uninstall_old", "install_file">>
                      /\ "old" \notin installed'
                /\ last'.out = "replace_raised" =>
                      calls' = Append(calls, "uninstall_old")
          /\ updateLogic' = "KEEP_BOTH" =>
                /\ calls' = Append(calls, "install_file")
                /\ installed' = installed]_vars

C22_Witness ==
    /\ last.op = "REPLACE" /\ last.out = "installing"
    /\ updatingFrom = "old" /\ "old" \notin installed
    /\ calls = <<"uninstall_old", "install_file">>

\* C23: when an install attempt has ended, by the end of its work unit or
\* by the failure of the uninstall of the old version, update_logic is None.
C23_UpdateLogicCleared ==
    ((last.op = "install" /\ last.out = "done") \/ last.out = "replace_raised")
        => updateLogic = None

\* C24: an update work unit that got no manager from check_url ends by
\* returning, not by raising, and leaves the package INSTALLED.
C24_UnresolvedUpdateCompletes ==
    (last.op = "update" /\ last.out \in {"done", "raised"} /\ ~last.mgr) =>
        /\ last.out = "done"
        /\ status = "INSTALLED"

\* C25: when provider.uninstall has returned for a package without a stored
\* record, 'uninstalled-app' is emitted.
C25_UninstallWithoutRecordCompletes ==
    (last.op = "primary" /\ last.out \in {"uninstalled", "keyerror"}) => emitted

\* C26: after a delete, the rows of the working set are exactly the rows
\* still displayed.
C26_DeleteRemovesClickedRow ==
    last.op = "env_delete" =>
        {envList[i] : i \in 1..Len(envList)} = envShown

\* C27: the editor is built from every committed list, and a commit made
\* without an edit writes no entry that the committed list did not hold.
C27_CommitIdempotentAcrossReload ==
    [][/\ last'.out # "valueerror"
       /\ last'.op = "env_delete" =>
             \A i \in 1..Len(envCommitted') : Holds(envCommitted, envCommitted'[i])]_vars

=============================================================================
